---- MODULE Spec2Model ----
(***************************************************************************)
(* MqttManager: a wrapper around an asynchronous MQTT client that keeps    *)
(* the broker configuration and retries lost connections with a bounded    *)
(* exponential backoff (src/src/MqttManager.cpp, src/src/MqttManager.h).   *)
(*                                                                         *)
(* The supervisor's handlers are pure operators on a record s of the       *)
(* fields a handler can change, and an environment record e of what it     *)
(* only reads (the clock and the configuration buffers).  Each action of   *)
(* the module runs one whole handler, nested calls included.               *)
(*                                                                         *)
(* Specifications: Spec (any application, bounded clock), LiveSpec (the    *)
(* clock wrapping for ever, with fairness), ConfigSpec (the configuration  *)
(* changed between attempts), ScenarioSpec (the test scenario of three     *)
(* failures and a success), SketchSpec (setup() and loop() of the sketch)  *)
(* and WrapSpec (the clock around its wrap).                               *)
(***************************************************************************)
EXTENDS Integers, Sequences, FiniteSets, TLC

VARIABLES
    now,                  \* millis(), in ticks of MsPerTick ms
    mqtt_server,          \* char mqtt_server[16]
    mqtt_port,            \* int mqtt_port
    lwt_topic,            \* char lwt_topic[64]
    lastReconnectAttempt, \* unsigned long lastReconnectAttempt, in ticks
    reconnectDelay,       \* unsigned long reconnectDelay, in ms
    mqttClient,           \* AsyncMqttClient mqttClient: "idle", "connecting", "connected"
    ops,                  \* transport operations performed by the last handler, in order
    call,                 \* the last handler run, with what it saw on entry
    attempts,             \* history: connect requests issued by reconnect() since the
                          \* construction or the last onConnect (saturating)
    failures,             \* history: failed connect attempts since then (saturating)
    window,               \* history: the backoff window a session drop fell into
    scenario,             \* the transport events of the test scenario played so far
    sketch                \* the sketch: its position in setup()/loop(), the result of
                          \* autoConnect() and static lastMessageTime (in ticks)

vars == <<now, mqtt_server, mqtt_port, lwt_topic, lastReconnectAttempt,
          reconnectDelay, mqttClient, ops, call, attempts, failures,
          window, scenario, sketch>>

\* What drives the supervisor in the specifications of one application.
drivers == <<scenario, sketch>>

----------------------------------------------------------------------------
(* Bounds of the model *)

\* The clock advances by the loop period up to this value (ms) ...
MaxTime == 16000
\* ... and beyond it, straight to the instant the next retry is due, up to
\* this value (ms).
MaxDueTime == 64000
\* The failure counter saturates here.
FailCap == 2
\* The attempt counter saturates here.
AttemptCap == 8
\* The clock of the specification ConfigSpec stops here (ms).
MaxConfigTime == 3000
\* The specification WrapSpec follows the clock from this long (ms) before it
\* wraps around to this long after.
WrapSpan == 8000

----------------------------------------------------------------------------
(* Program constants *)

\* unsigned long is 32 bits wide on the ESP32: arithmetic is modulo 2^32.
UlongBits == 32
ServerBufSize == 16
TopicBufSize == 64
DefaultPort == 1883
InitialDelay == 1000
BaselineDelay == 1000
maxReconnectDelay == 32000
KeepAliveSeconds == 60
LoopDelay == 1000
SetupDelay == 1000
MessagePeriod == 10000
offline_message == "off"
online_message == "on"

NUL == "NUL"

\* "192.168.1.113", the broker of the sketch.
SketchServer == <<"1","9","2",".","1","6","8",".","1",".","1","1","3">>
\* "device/status", the LWT topic of the usage example.
StatusTopic == <<"d","e","v","i","c","e","/","s","t","a","t","u","s">>
\* "device/data" and "Hello, MQTT!", the message of the usage example.
DataTopic == <<"d","e","v","i","c","e","/","d","a","t","a">>
DataMessage == "Hello, MQTT!"

\* The LWT topic, the test topic and the test message of the sketch.
SketchLwtTopic == 
    <<"k","o","r","n","g","v","a","/","s","o","u","n","d","_","m","o","n","i","t","o","r","/","d","e","v","i","c","e","_","s","t","a","t","u","s">>
SketchTestTopic == 
    <<"k","o","r","n","g","v","a","/","s","o","u","n","d","_","m","o","n","i","t","o","r","/","t","e","s","t","_","t","o","p","i","c">>
SketchTestMessage == "Hello from ESP32!"
\* "10.0.0.5" and "dev/status", the configuration of the test scenario, and
\* the instants (ms) of its three connect failures and of its success.
ScenarioServer == <<"1","0",".","0",".","0",".","5">>
ScenarioTopic == <<"d","e","v","/","s","t","a","t","u","s">>
ScenarioTimes == <<0, 1000, 3000, 7000>>
\* "mqtt.example.com", the broker of the usage example: 16 characters.
ExampleServer == <<"m","q","t","t",".","e","x","a","m","p","l","e",".","c","o","m">>
\* "my/topic/lwt", the LWT topic of the example in MqttManager.cpp.
DocTopic == <<"m","y","/","t","o","p","i","c","/","l","w","t">>

Servers == {SketchServer}
Ports == {DefaultPort}
Topics == {StatusTopic}
\* What a read past the end of an unterminated buffer may find before the
\* next NUL: nothing, or the bytes of the member that follows (mqtt_port
\* after mqtt_server: 0x5B 0x07 for 1883).
OverrunTails == {<<>>, <<"[", "BEL">>}

\* The configurations of the specification ConfigSpec.
ConfigServers == {SketchServer, ExampleServer}
ConfigPorts == {DefaultPort, 8883}
ConfigTopics == {StatusTopic, DocTopic}

----------------------------------------------------------------------------
(* Helpers *)

\* The clock is counted in ticks of 8 ms, the largest unit that divides both
\* 1000 ms and 2^32 ms: millis() = MsPerTick * now, and the 32-bit
\* millisecond clock wraps at ClockModulus ticks.
MsPerTick == 2 * 2 * 2
ClockModulus == 2^(UlongBits - 3)

\* The least number of ticks that lasts ms milliseconds or more.
TicksCeil(ms) == (ms + MsPerTick - 1) \div MsPerTick

Min(a, b) == IF a <= b THEN a ELSE b

RECURSIVE Pow2(_)
Pow2(n) == IF n = 0 THEN 1 ELSE 2 * Pow2(n - 1)

\* strncpy(dst, src, n): the first n characters of src, padded with NULs
\* up to n; no NUL is written when src has n characters or more.
strncpy(src, n) == [i \in 1..n |-> IF i <= Len(src) THEN src[i] ELSE NUL]

\* A buffer holds a NUL.
Terminated(buf) == \E i \in 1..Len(buf) : buf[i] = NUL

\* The C string a buffer is read as: the characters before the first NUL;
\* a buffer without a NUL is read past its end.
CStr(buf, overrun) ==
    IF Terminated(buf)
    THEN LET first == CHOOSE i \in 1..Len(buf) :
                          /\ buf[i] = NUL
                          /\ \A j \in 1..(i - 1) : buf[j] # NUL
         IN  SubSeq(buf, 1, first - 1)
    ELSE buf \o overrun

\* mqttClient.connected()
connected(l) == l = "connected"

\* mqttClient.connect(): starts an asynchronous connection attempt.
TransportConnect(l) == IF l = "idle" THEN "connecting" ELSE l

\* millis() - lastReconnectAttempt, in unsigned long arithmetic (in ticks).
Elapsed(t, last) == (t - last) % ClockModulus

ConnectRequests(o) == Cardinality({i \in 1..Len(o) : o[i].op = "connect"})
Publishes(o) == Cardinality({i \in 1..Len(o) : o[i].op = "publish"})

----------------------------------------------------------------------------
(* The handlers of MqttManager.  s holds link (the state of mqttClient),    *)
(* last (lastReconnectAttempt), delay (reconnectDelay), ops (the transport  *)
(* operations performed so far), rc (reconnect() invocations) and fired     *)
(* (reconnect() bodies executed).  All handlers run on the one control      *)
(* thread, so each runs to completion at one clock value.                   *)

\* Mutant: connect() without its connected() check.
ConnectGuard_Always(l) == TRUE

\* connect(): if (!mqttClient.connected())
ConnectGuard(l) == ~connected(l)

\* Mutant: connect() sets the will after it has requested the connection.
ConnectOps_WillAfterConnect(l, e) ==
    << [op |-> "setServer", host |-> CStr(e.server, e.overrun), port |-> e.port],
       [op |-> "setKeepAlive", seconds |-> KeepAliveSeconds],
       [op |-> "connect", link |-> l],
       [op |-> "setWill", topic |-> CStr(e.topic, e.overrun), qos |-> 0,
        retain |-> TRUE, payload |-> offline_message] >>

\* The transport calls of connect(), in order.
ConnectOps(l, e) ==
    << [op |-> "setServer", host |-> CStr(e.server, e.overrun), port |-> e.port],
       [op |-> "setKeepAlive", seconds |-> KeepAliveSeconds],
       [op |-> "setWill", topic |-> CStr(e.topic, e.overrun), qos |-> 0,
        retain |-> TRUE, payload |-> offline_message],
       [op |-> "connect", link |-> l] >>

\* Mutant: connect() stamps lastReconnectAttempt when it issues a request.
connect_Stamps(s, e) ==
    IF ConnectGuard(s.link)
    THEN [s EXCEPT !.ops = @ \o ConnectOps(s.link, e),
                   !.link = TransportConnect(@),
                   !.last = e.t]
    ELSE s

connect(s, e) ==
    IF ConnectGuard(s.link)
    THEN [s EXCEPT !.ops = @ \o ConnectOps(s.link, e),
                   !.link = TransportConnect(@)]
    ELSE s

\* Mutant: the gate gives up once the delay has reached its maximum.
ReconnectGate_GivesUp(l, t, last, delay) ==
    ~connected(l) /\ Elapsed(t, last) >= TicksCeil(delay) /\ delay < maxReconnectDelay

\* Mutant: the gate without the backoff test.
ReconnectGate_NoBackoff(l, t, last, delay) == ~connected(l)

\* Mutant: the gate compares the clock itself, not the time elapsed.
ReconnectGate_AbsoluteTime(l, t, last, delay) ==
    ~connected(l) /\ t >= TicksCeil(delay)

\* Mutant: the gate without the connected() test.
ReconnectGate_IgnoresConnected(l, t, last, delay) ==
    Elapsed(t, last) >= TicksCeil(delay)

\* Mutant: the gate subtracts in a signed or wider type: no wrap-around.
ReconnectGate_NoWrap(l, t, last, delay) ==
    ~connected(l) /\ t - last >= TicksCeil(delay)

\* Mutant: the gate asks for more than the delay to have elapsed.
ReconnectGate_Strict(l, t, last, delay) ==
    ~connected(l) /\ Elapsed(t, last) > TicksCeil(delay)

\* reconnect(): if (!mqttClient.connected() && millis() - lastReconnectAttempt >= reconnectDelay)
\* (elapsed is a whole number of ticks, so elapsed ms >= delay exactly when
\* elapsed ticks >= TicksCeil(delay))
ReconnectGate(l, t, last, delay) ==
    ~connected(l) /\ Elapsed(t, last) >= TicksCeil(delay)

\* Mutant: the delay doubles without a cap.
Backoff_NoCap(delay) == delay * 2

\* Mutant: the delay grows by one second where it should double.
Backoff_Linear(delay) ==
    IF delay < maxReconnectDelay THEN delay + 1000 ELSE delay

\* if (reconnectDelay < maxReconnectDelay) reconnectDelay *= 2;
Backoff(delay) ==
    IF delay < maxReconnectDelay THEN delay * 2 ELSE delay

\* Mutant: reconnect() without the update of lastReconnectAttempt.
reconnect_NoStamp(s, e) ==
    LET s0 == [s EXCEPT !.rc = @ + 1]
    IN  IF ReconnectGate(s0.link, e.t, s0.last, s0.delay)
        THEN LET s1 == connect(s0, e)
             IN  [s1 EXCEPT !.delay = Backoff(@), !.fired = @ + 1]
        ELSE s0

\* Mutant: the backoff statement sits after the if block of reconnect(), not
\* inside it.
reconnect_BackoffOutsideGate(s, e) ==
    LET s0 == [s EXCEPT !.rc = @ + 1]
        s2 == IF ReconnectGate(s0.link, e.t, s0.last, s0.delay)
              THEN LET s1 == connect(s0, e)
                   IN  [s1 EXCEPT !.last = e.t, !.fired = @ + 1]
              ELSE s0
    IN  [s2 EXCEPT !.delay = Backoff(@)]

reconnect(s, e) ==
    LET s0 == [s EXCEPT !.rc = @ + 1]
    IN  IF ReconnectGate(s0.link, e.t, s0.last, s0.delay)
        THEN LET s1 == connect(s0, e)
             IN  [s1 EXCEPT !.last = e.t,
                            !.delay = Backoff(@),
                            !.fired = @ + 1]
        ELSE s0

\* Mutant: sendMessage() publishes without looking at the connection.
sendMessage_Unchecked(s, e, topic, message) ==
    [s EXCEPT !.ops = @ \o << [op |-> "publish", topic |-> topic, qos |-> 0,
                               retain |-> TRUE, payload |-> message] >>]

sendMessage(s, e, topic, message) ==
    IF connected(s.link)
    THEN [s EXCEPT !.ops = @ \o << [op |-> "publish", topic |-> topic, qos |-> 0,
                                    retain |-> TRUE, payload |-> message] >>]
    ELSE reconnect(s, e)

\* Mutant: onConnect() announces the offline message.
onConnect_SendsOffline(s, e) ==
    LET s1 == sendMessage(s, e, CStr(e.topic, e.overrun), offline_message)
    IN  [s1 EXCEPT !.delay = BaselineDelay]

\* Mutant: onConnect() without the reset of the delay.
onConnect_NoReset(s, e) ==
    sendMessage(s, e, CStr(e.topic, e.overrun), online_message)

onConnect(s, e) ==
    LET s1 == sendMessage(s, e, CStr(e.topic, e.overrun), online_message)
    IN  [s1 EXCEPT !.delay = BaselineDelay]

\* Mutant: onDisconnect() connects at once instead of going through reconnect().
onDisconnect_Direct(s, e) == connect(s, e)

\* Mutant: onDisconnect() resets the delay before it retries.
onDisconnect_Resets(s, e) == reconnect([s EXCEPT !.delay = BaselineDelay], e)

onDisconnect(s, e) == reconnect(s, e)

isConnected(s) == connected(s.link)

----------------------------------------------------------------------------
(* State *)

NoWindow == [active |-> FALSE, last |-> 0, delay |-> 0]

\* MqttManager::MqttManager(), on the zero-initialised global of the sketch.
Init ==
    /\ now = 0
    /\ mqtt_server = strncpy(<<>>, ServerBufSize)
    /\ mqtt_port = DefaultPort
    /\ lwt_topic = strncpy(<<>>, TopicBufSize)
    /\ lastReconnectAttempt = 0
    /\ reconnectDelay = InitialDelay
    /\ mqttClient = "idle"
    /\ ops = <<>>
    /\ call = [op |-> "init", event |-> "call", conn |-> FALSE, rc |-> 0, fired |-> 0,
               last0 |-> 0, delay0 |-> InitialDelay]
    /\ attempts = 0
    /\ failures = 0
    /\ window = NoWindow
    /\ scenario = 0
    /\ sketch = [pc |-> "boot", wifi |-> FALSE, lastMessageTime |-> 0]

\* The record of a handler run: its name, the event that ran it ("call" for a
\* call of the application, "connack", "connfail" or "drop" for a callback of
\* the transport, "time" for the clock), what connected() returned on entry,
\* the reconnect() invocations made and fired, and lastReconnectAttempt and
\* reconnectDelay on entry.
Record(name, event, conn, rc, fired) ==
    [op |-> name, event |-> event, conn |-> conn, rc |-> rc, fired |-> fired,
     last0 |-> lastReconnectAttempt, delay0 |-> reconnectDelay]

\* What a handler starts from, the transport being in state l.
Start(l) ==
    [link |-> l, last |-> lastReconnectAttempt, delay |-> reconnectDelay,
     ops |-> <<>>, rc |-> 0, fired |-> 0]

Env(overrun) ==
    [t |-> now, server |-> mqtt_server, port |-> mqtt_port, topic |-> lwt_topic,
     overrun |-> overrun]

\* The state after handler `name` has run from Start(l) to s1.  event is
\* "call" for a call of the application, and "connack", "connfail" or "drop"
\* for a callback of the transport.
Commit(name, event, l, s1) ==
    /\ mqttClient' = s1.link
    /\ lastReconnectAttempt' = s1.last
    /\ reconnectDelay' = s1.delay
    /\ ops' = s1.ops
    /\ call' = Record(name, event, connected(l), s1.rc, s1.fired)
    /\ attempts' = IF name = "onConnect" THEN 0
                   ELSE Min(attempts + s1.fired, AttemptCap)
    /\ failures' = IF name = "onConnect" THEN 0
                   ELSE IF event = "connfail" THEN Min(failures + 1, FailCap)
                   ELSE failures
    /\ window' = IF event = "drop"
                    /\ Elapsed(now, lastReconnectAttempt) < TicksCeil(reconnectDelay)
                 THEN [active |-> TRUE, last |-> lastReconnectAttempt,
                       delay |-> reconnectDelay]
                 ELSE IF s1.fired > 0 THEN NoWindow
                 ELSE window
    /\ UNCHANGED <<now, mqtt_server, mqtt_port, lwt_topic>>

\* What the reads of the configuration buffers may run into.
Overruns ==
    IF Terminated(mqtt_server) /\ Terminated(lwt_topic) THEN {<<>>} ELSE OverrunTails

----------------------------------------------------------------------------
(* Actions *)

\* Time passes: delay(ms) of the main loop.
Delay(d) ==
    /\ d % MsPerTick = 0
    /\ now + d \div MsPerTick <= MaxTime \div MsPerTick
    /\ now' = (now + d \div MsPerTick) % ClockModulus
    /\ ops' = <<>>
    /\ call' = Record("delay", "time", connected(mqttClient), 0, 0)
    /\ UNCHANGED <<mqtt_server, mqtt_port, lwt_topic, lastReconnectAttempt,
                   reconnectDelay, mqttClient, attempts, failures, window, drivers>>

\* Time passes until the backoff window closes: the next reconnect() is the
\* first one that is due.
DelayUntilDue ==
    LET due == TicksCeil(reconnectDelay) - Elapsed(now, lastReconnectAttempt)
    IN  /\ due > 0
        /\ now + due <= MaxDueTime \div MsPerTick
        /\ now' = (now + due) % ClockModulus
        /\ ops' = <<>>
        /\ call' = Record("delay", "time", connected(mqttClient), 0, 0)
        /\ UNCHANGED <<mqtt_server, mqtt_port, lwt_topic, lastReconnectAttempt,
                       reconnectDelay, mqttClient, attempts, failures, window, drivers>>

CallSetServer(server, port) ==
    /\ mqtt_server' = strncpy(server, ServerBufSize)
    /\ mqtt_port' = port
    /\ ops' = <<>>
    /\ call' = Record("setServer", "call", connected(mqttClient), 0, 0)
    /\ UNCHANGED <<now, lwt_topic, lastReconnectAttempt, reconnectDelay, mqttClient,
                   attempts, failures, window, drivers>>

CallSetLwt(topic) ==
    /\ lwt_topic' = strncpy(topic, TopicBufSize)
    /\ ops' = <<>>
    /\ call' = Record("setLwt", "call", connected(mqttClient), 0, 0)
    /\ UNCHANGED <<now, mqtt_server, mqtt_port, lastReconnectAttempt, reconnectDelay,
                   mqttClient, attempts, failures, window, drivers>>

CallConnect(overrun) ==
    /\ Commit("connect", "call", mqttClient, connect(Start(mqttClient), Env(overrun)))
    /\ UNCHANGED drivers

CallReconnect(overrun) ==
    /\ Commit("reconnect", "call", mqttClient,
              reconnect(Start(mqttClient), Env(overrun)))
    /\ UNCHANGED drivers

CallSendMessage(overrun, topic, message) ==
    /\ Commit("sendMessage", "call", mqttClient,
              sendMessage(Start(mqttClient), Env(overrun), topic, message))
    /\ UNCHANGED drivers

CallIsConnected ==
    /\ ops' = <<>>
    /\ call' = Record("isConnected", "call", isConnected(Start(mqttClient)), 0, 0)
    /\ UNCHANGED <<now, mqtt_server, mqtt_port, lwt_topic, lastReconnectAttempt,
                   reconnectDelay, mqttClient, attempts, failures, window, drivers>>

\* The transport completes the handshake and runs the onConnect callback.
TransportConnAck(overrun) ==
    /\ mqttClient = "connecting"
    /\ Commit("onConnect", "connack", "connected",
              onConnect(Start("connected"), Env(overrun)))
    /\ UNCHANGED drivers

\* The attempt in flight fails: the transport runs the onDisconnect callback.
TransportConnFail(overrun) ==
    /\ mqttClient = "connecting"
    /\ Commit("onDisconnect", "connfail", "idle",
              onDisconnect(Start("idle"), Env(overrun)))
    /\ UNCHANGED drivers

\* An established session drops: the transport runs the onDisconnect callback.
TransportDrop(overrun) ==
    /\ mqttClient = "connected"
    /\ Commit("onDisconnect", "drop", "idle",
              onDisconnect(Start("idle"), Env(overrun)))
    /\ UNCHANGED drivers

Next ==
    \/ Delay(LoopDelay)
    \/ DelayUntilDue
    \/ \E server \in Servers, port \in Ports : CallSetServer(server, port)
    \/ \E topic \in Topics : CallSetLwt(topic)
    \/ \E overrun \in Overruns : CallConnect(overrun)
    \/ \E overrun \in Overruns : CallReconnect(overrun)
    \/ \E overrun \in Overruns : CallSendMessage(overrun, DataTopic, DataMessage)
    \/ CallIsConnected
    \/ \E overrun \in Overruns : TransportConnAck(overrun)
    \/ \E overrun \in Overruns : TransportConnFail(overrun)
    \/ \E overrun \in Overruns : TransportDrop(overrun)

Spec == Init /\ [][Next]_vars

----------------------------------------------------------------------------
(* The supervisor over unbounded time: the clock advances in quarters of its *)
(* 2^32 ms period and wraps around.                                         *)

DelayLong ==
    /\ now' = (now + ClockModulus \div 4) % ClockModulus
    /\ ops' = <<>>
    /\ call' = Record("delay", "time", connected(mqttClient), 0, 0)
    /\ UNCHANGED <<mqtt_server, mqtt_port, lwt_topic, lastReconnectAttempt,
                   reconnectDelay, mqttClient, attempts, failures, window, drivers>>

\* A retry is due: the transport is disconnected and the backoff delay has
\* elapsed since the last attempt.
RetryDue ==
    /\ mqttClient # "connected"
    /\ Elapsed(now, lastReconnectAttempt) >= TicksCeil(reconnectDelay)

\* reconnect() is polled while a retry is due.
PollWhileDue ==
    /\ RetryDue
    /\ \E overrun \in Overruns : CallReconnect(overrun)

LiveNext ==
    \/ DelayLong
    \/ \E overrun \in Overruns : CallConnect(overrun)
    \/ \E overrun \in Overruns : CallReconnect(overrun)
    \/ \E overrun \in Overruns : CallSendMessage(overrun, DataTopic, DataMessage)
    \/ \E overrun \in Overruns : TransportConnAck(overrun)
    \/ \E overrun \in Overruns : TransportConnFail(overrun)
    \/ \E overrun \in Overruns : TransportDrop(overrun)

\* The clock keeps advancing, and the polling loop, whose period is far
\* shorter than the time a retry stays due, polls reconnect() while it is due.
LiveSpec ==
    /\ Init
    /\ [][LiveNext]_vars
    /\ WF_vars(DelayLong)
    /\ SF_vars(PollWhileDue)

----------------------------------------------------------------------------
(* The supervisor under changing configurations: the broker address, the    *)
(* port and the LWT topic are set again between attempts; time advances     *)
(* by the loop period.                                                      *)

\* delay(ms) of the main loop, up to MaxConfigTime.
ConfigDelay(d) ==
    /\ now + d \div MsPerTick <= MaxConfigTime \div MsPerTick
    /\ Delay(d)

ConfigNext ==
    \/ ConfigDelay(LoopDelay)
    \/ \E server \in ConfigServers, port \in ConfigPorts : CallSetServer(server, port)
    \/ \E topic \in ConfigTopics : CallSetLwt(topic)
    \/ \E overrun \in Overruns : CallConnect(overrun)
    \/ \E overrun \in Overruns : CallReconnect(overrun)
    \/ \E overrun \in Overruns : CallSendMessage(overrun, DataTopic, DataMessage)
    \/ \E overrun \in Overruns : TransportConnAck(overrun)
    \/ \E overrun \in Overruns : TransportConnFail(overrun)
    \/ \E overrun \in Overruns : TransportDrop(overrun)

ConfigSpec == Init /\ [][ConfigNext]_vars

----------------------------------------------------------------------------
(* The test scenario: the supervisor is configured and connect() is called; *)
(* the transport fails the attempt in flight at 0, 1000 and 3000 ms and     *)
(* completes one at 7000 ms.  In between the application may call           *)
(* connect(), reconnect() and sendMessage() at every loop period.           *)

\* The instant (in ticks) of the next transport event of the scenario.
ScenarioDue == ScenarioTimes[scenario + 1] \div MsPerTick

\* The scenario has configured the supervisor and called connect().
ScenarioStarted == call.op \notin {"init", "setServer", "setLwt"}

ScenarioSetServer ==
    /\ call.op = "init"
    /\ CallSetServer(ScenarioServer, DefaultPort)

ScenarioSetLwt ==
    /\ call.op = "setServer"
    /\ CallSetLwt(ScenarioTopic)

ScenarioConnect ==
    /\ call.op = "setLwt"
    /\ \E overrun \in Overruns : CallConnect(overrun)

\* The transport fails the attempt in flight at the next instant of the
\* scenario and runs the onDisconnect callback.
ScenarioConnFail(overrun) ==
    /\ scenario < Len(ScenarioTimes) - 1
    /\ now = ScenarioDue
    /\ mqttClient = "connecting"
    /\ Commit("onDisconnect", "connfail", "idle",
              onDisconnect(Start("idle"), Env(overrun)))
    /\ scenario' = scenario + 1
    /\ UNCHANGED sketch

\* The transport completes the attempt in flight at the last instant of the
\* scenario and runs the onConnect callback.
ScenarioConnAck(overrun) ==
    /\ scenario = Len(ScenarioTimes) - 1
    /\ now = ScenarioDue
    /\ mqttClient = "connecting"
    /\ Commit("onConnect", "connack", "connected",
              onConnect(Start("connected"), Env(overrun)))
    /\ scenario' = scenario + 1
    /\ UNCHANGED sketch

\* The clock of the scenario does not pass a transport event that is due.
ScenarioDelay(d) ==
    /\ ScenarioStarted
    /\ scenario < Len(ScenarioTimes) => now + d \div MsPerTick <= ScenarioDue
    /\ Delay(d)

ScenarioNext ==
    \/ ScenarioSetServer
    \/ ScenarioSetLwt
    \/ ScenarioConnect
    \/ ScenarioDelay(LoopDelay)
    \/ ScenarioStarted /\ \E overrun \in Overruns : CallConnect(overrun)
    \/ ScenarioStarted /\ \E overrun \in Overruns : CallReconnect(overrun)
    \/ ScenarioStarted /\ \E overrun \in Overruns :
                              CallSendMessage(overrun, DataTopic, DataMessage)
    \/ \E overrun \in Overruns : ScenarioConnFail(overrun)
    \/ \E overrun \in Overruns : ScenarioConnAck(overrun)

ScenarioSpec == Init /\ [][ScenarioNext]_vars

----------------------------------------------------------------------------
(* The sketch: setup() waits, provisions Wi-Fi and, when that succeeded,    *)
(* configures the supervisor and calls connect(); loop() waits one period   *)
(* and sends a test message when MessagePeriod has elapsed since the last   *)
(* one.  The transport runs its callbacks between the steps of the sketch.  *)

\* setup(): delay(1000), then wifiManager.autoConnect(), which returns ok.
SketchBoot(ok) ==
    /\ sketch.pc = "boot"
    /\ now' = (now + SetupDelay \div MsPerTick) % ClockModulus
    /\ sketch' = [sketch EXCEPT !.pc = IF ok THEN "configure" ELSE "loop",
                                !.wifi = ok]
    /\ ops' = <<>>
    /\ call' = Record("setup", "call", connected(mqttClient), 0, 0)
    /\ UNCHANGED <<mqtt_server, mqtt_port, lwt_topic, lastReconnectAttempt,
                   reconnectDelay, mqttClient, attempts, failures, window, scenario>>

\* setup(): mqttManager.setServer(mqtt_server, mqtt_port); mqttManager.setLwt(lwt_topic)
SketchConfigure ==
    /\ sketch.pc = "configure"
    /\ mqtt_server' = strncpy(SketchServer, ServerBufSize)
    /\ mqtt_port' = DefaultPort
    /\ lwt_topic' = strncpy(SketchLwtTopic, TopicBufSize)
    /\ sketch' = [sketch EXCEPT !.pc = "connect"]
    /\ ops' = <<>>
    /\ call' = Record("setLwt", "call", connected(mqttClient), 0, 0)
    /\ UNCHANGED <<now, lastReconnectAttempt, reconnectDelay, mqttClient, attempts,
                   failures, window, scenario>>

\* setup(): mqttManager.connect()
SketchConnect(overrun) ==
    /\ sketch.pc = "connect"
    /\ Commit("connect", "call", mqttClient, connect(Start(mqttClient), Env(overrun)))
    /\ sketch' = [sketch EXCEPT !.pc = "loop"]
    /\ UNCHANGED scenario

\* loop(): delay(1000)
SketchLoopDelay ==
    /\ sketch.pc = "loop"
    /\ now + LoopDelay \div MsPerTick <= MaxTime \div MsPerTick
    /\ now' = (now + LoopDelay \div MsPerTick) % ClockModulus
    /\ sketch' = [sketch EXCEPT !.pc = "send"]
    /\ ops' = <<>>
    /\ call' = Record("delay", "time", connected(mqttClient), 0, 0)
    /\ UNCHANGED <<mqtt_server, mqtt_port, lwt_topic, lastReconnectAttempt,
                   reconnectDelay, mqttClient, attempts, failures, window, scenario>>

\* loop(): if (millis() - lastMessageTime >= 10000)
MessageDue == Elapsed(now, sketch.lastMessageTime) >= TicksCeil(MessagePeriod)

\* loop(): the test message is sent when it is due.
SketchLoopSend(overrun) ==
    /\ sketch.pc = "send"
    /\ IF MessageDue
       THEN /\ Commit("sendMessage", "call", mqttClient,
                      sendMessage(Start(mqttClient), Env(overrun),
                                  SketchTestTopic, SketchTestMessage))
            /\ sketch' = [sketch EXCEPT !.pc = "loop", !.lastMessageTime = now]
       ELSE /\ sketch' = [sketch EXCEPT !.pc = "loop"]
            /\ ops' = <<>>
            /\ call' = Record("loop", "call", connected(mqttClient), 0, 0)
            /\ UNCHANGED <<now, mqtt_server, mqtt_port, lwt_topic,
                           lastReconnectAttempt, reconnectDelay, mqttClient,
                           attempts, failures, window>>
    /\ UNCHANGED scenario

SketchNext ==
    \/ \E ok \in BOOLEAN : SketchBoot(ok)
    \/ SketchConfigure
    \/ \E overrun \in Overruns : SketchConnect(overrun)
    \/ SketchLoopDelay
    \/ \E overrun \in Overruns : SketchLoopSend(overrun)
    \/ \E overrun \in Overruns : TransportConnAck(overrun)
    \/ \E overrun \in Overruns : TransportConnFail(overrun)
    \/ \E overrun \in Overruns : TransportDrop(overrun)

SketchSpec == Init /\ [][SketchNext]_vars

----------------------------------------------------------------------------
(* The supervisor around the wrap of the clock: the board runs, the          *)
(* supervisor untouched, until WrapSpan before millis() wraps around; from   *)
(* there the clock advances by the loop period until WrapSpan after.         *)

\* The clock value (in ticks) WrapSpan before the wrap.
WrapStart == ClockModulus - WrapSpan \div MsPerTick

\* Time passes from the construction to WrapSpan before the wrap.
DelayToWrap ==
    /\ call.op = "init"
    /\ now' = WrapStart
    /\ ops' = <<>>
    /\ call' = Record("delay", "time", connected(mqttClient), 0, 0)
    /\ UNCHANGED <<mqtt_server, mqtt_port, lwt_topic, lastReconnectAttempt,
                   reconnectDelay, mqttClient, attempts, failures, window, drivers>>

\* delay(ms) of the main loop, across the wrap.  The supervisor is polled at
\* least once per delay, so the clock wraps only after an attempt has been
\* made since WrapStart.
WrapDelay(d) ==
    /\ d % MsPerTick = 0
    /\ call.op # "init"
    /\ IF now >= WrapStart
       THEN now + d \div MsPerTick >= ClockModulus => lastReconnectAttempt >= WrapStart
       ELSE now + d \div MsPerTick <= WrapSpan \div MsPerTick
    /\ now' = (now + d \div MsPerTick) % ClockModulus
    /\ ops' = <<>>
    /\ call' = Record("delay", "time", connected(mqttClient), 0, 0)
    /\ UNCHANGED <<mqtt_server, mqtt_port, lwt_topic, lastReconnectAttempt,
                   reconnectDelay, mqttClient, attempts, failures, window, drivers>>

WrapNext ==
    \/ DelayToWrap
    \/ WrapDelay(LoopDelay)
    \/ \E overrun \in Overruns : CallConnect(overrun)
    \/ \E overrun \in Overruns : CallReconnect(overrun)
    \/ \E overrun \in Overruns : CallSendMessage(overrun, DataTopic, DataMessage)
    \/ \E overrun \in Overruns : TransportConnAck(overrun)
    \/ \E overrun \in Overruns : TransportConnFail(overrun)
    \/ \E overrun \in Overruns : TransportDrop(overrun)

WrapSpec == Init /\ [][WrapNext]_vars

----------------------------------------------------------------------------
(* Properties *)

\* The time elapsed since lastReconnectAttempt `last`, at clock value t, is
\* less than `delay` ms.
WithinBackoff(t, last, delay) == Elapsed(t, last) < TicksCeil(delay)

\* C1: in every reachable state reconnectDelay is between 1000 ms and
\* 32000 ms inclusive.
C1_DelayInRange == 1000 <= reconnectDelay /\ reconnectDelay <= 32000

\* A reconnect() that fired with the delay already at 32000 ms left it there.
C1_Witness ==
    /\ call.fired = 1
    /\ call.delay0 = 32000
    /\ reconnectDelay = 32000

\* C2 as stated: right after the Nth failed connect attempt since the
\* construction or the last successful connection, the delay the failure
\* finds is min(1000 * 2^N, 32000) ms.
C2_AfterNFailures ==
    (call.event = "connfail" /\ failures < FailCap)
        => call.delay0 = Min(1000 * Pow2(failures), 32000)

\* C2 amended: after N connect requests issued by reconnect() since the
\* construction or the last successful connection, reconnectDelay is
\* min(1000 * 2^N, 32000) ms; the attempts of direct connect() calls do not
\* count, whether they fail or not.
C2_AfterNReconnects == reconnectDelay = Min(1000 * Pow2(attempts), 32000)

\* Six attempts of reconnect() in a row, some of them failed: the delay is at
\* its cap and not at 1000 * 2^6.
C2_Witness ==
    /\ attempts = 6
    /\ failures >= 1
    /\ reconnectDelay = 32000

\* C3: whenever onConnect has completed, reconnectDelay is exactly 1000 ms.
C3_OnConnectResets == call.op = "onConnect" => reconnectDelay = 1000

\* onConnect found a delay above the baseline, published the online message
\* and left the delay at 1000 ms.
C3_Witness ==
    /\ call.op = "onConnect"
    /\ call.delay0 > 1000
    /\ Publishes(ops) = 1
    /\ reconnectDelay = 1000

\* C4: the supervisor never stops retrying.  In every state a reconnect()
\* polled on a disconnected transport once the delay has elapsed passes its
\* gate, and in every execution in which the transport stays disconnected,
\* the clock keeps advancing and reconnect() keeps being polled, a connect
\* request is issued again and again.
C4_NeverStopsRetrying ==
    /\ [](ReconnectGate("idle",
                        (lastReconnectAttempt + TicksCeil(reconnectDelay)) % ClockModulus,
                        lastReconnectAttempt, reconnectDelay))
    /\ (<>[](mqttClient # "connected")) => []<>(ConnectRequests(ops) > 0)

\* With the delay at its cap and the clock wrapped around to before the last
\* attempt, a polled reconnect() has issued one more connect request.
C4_Witness ==
    /\ call.op = "reconnect"
    /\ call.delay0 = 32000
    /\ now < call.last0
    /\ ConnectRequests(ops) = 1

\* C5 as stated: no connect request is issued while an earlier one is pending,
\* that is, before a disconnect event has followed it (the transport is "idle"
\* exactly when no request has been issued since the last disconnect event).
C5_NoRequestWhilePending ==
    \A i \in 1..Len(ops) : ops[i].op = "connect" => ops[i].link = "idle"

\* C5 amended: no connect request is issued while a connection is
\* established; while an attempt is still in flight, reconnect() issues no
\* second request before reconnectDelay has elapsed since
\* lastReconnectAttempt, and issues one, without any disconnect event, when
\* it is called after that.
C5_NoRequestBeforeDelay ==
    /\ \A i \in 1..Len(ops) :
           ops[i].op = "connect" =>
               /\ ops[i].link # "connected"
               /\ (ops[i].link = "connecting" /\ call.rc > 0)
                      => ~WithinBackoff(now, call.last0, call.delay0)
    /\ (call.op = "reconnect" /\ ~call.conn
            /\ ~WithinBackoff(now, call.last0, call.delay0))
           => ConnectRequests(ops) = 1

\* A polled reconnect() has issued a second connect request while the first
\* was still in flight.
C5_Witness ==
    /\ call.op = "reconnect"
    /\ \E i \in 1..Len(ops) : ops[i].op = "connect" /\ ops[i].link = "connecting"

\* C6: a reconnect() called while the transport is disconnected and less than
\* reconnectDelay has elapsed since lastReconnectAttempt performs no
\* transport operation.
C6_GatedReconnectIsSilent ==
    (call.op = "reconnect" /\ ~call.conn /\ WithinBackoff(now, call.last0, call.delay0))
        => ops = <<>>

\* reconnect() was called on a disconnected transport, after an earlier
\* attempt and inside its backoff window, and did nothing.
C6_Witness ==
    /\ call.op = "reconnect"
    /\ ~call.conn
    /\ call.last0 > 0
    /\ WithinBackoff(now, call.last0, call.delay0)
    /\ ops = <<>>

\* C7: a reconnect() called while the transport reports connected performs no
\* transport operation and leaves reconnectDelay and lastReconnectAttempt
\* unchanged.
C7_ConnectedReconnectIsNoOp ==
    (call.op = "reconnect" /\ call.conn)
        => /\ ops = <<>>
           /\ reconnectDelay = call.delay0
           /\ lastReconnectAttempt = call.last0

\* reconnect() was called on a connected transport after the delay had
\* elapsed: only the connection held it back.
C7_Witness ==
    /\ call.op = "reconnect"
    /\ call.conn
    /\ ~WithinBackoff(now, call.last0, call.delay0)
    /\ ops = <<>>
    /\ call.fired = 0

\* C8: a sendMessage() called while the transport is disconnected never
\* publishes and invokes reconnect() exactly once.
C8_SendWhileDisconnected ==
    (call.op = "sendMessage" /\ ~call.conn)
        => /\ Publishes(ops) = 0
           /\ call.rc = 1

\* sendMessage() on a disconnected transport went through reconnect(), which
\* passed its gate and issued a connect request.
C8_Witness ==
    /\ call.op = "sendMessage"
    /\ ~call.conn
    /\ call.rc = 1
    /\ call.fired = 1
    /\ ConnectRequests(ops) = 1
    /\ Publishes(ops) = 0

\* C9: connect() is a no-op when the transport reports connected (no
\* transport call, no change of the supervisor's state), and no connect
\* request is ever issued while the transport is connected.
C9_ConnectIsNoOpWhenConnected ==
    /\ [](\A i \in 1..Len(ops) : ops[i].op = "connect" => ops[i].link # "connected")
    /\ [][(call'.op = "connect" /\ call'.event = "call" /\ connected(mqttClient))
              => /\ ops' = <<>>
                 /\ UNCHANGED <<mqtt_server, mqtt_port, lwt_topic, mqttClient,
                                lastReconnectAttempt, reconnectDelay>>]_vars

\* connect() was called on a connected transport and did nothing.
C9_Witness ==
    /\ call.op = "connect"
    /\ call.conn
    /\ mqttClient = "connected"
    /\ ops = <<>>

\* C10: onDisconnect invokes reconnect() at once; when a connected session
\* drops inside the backoff window, that call issues no connect request, and
\* no later reconnect() issues one before the window has elapsed.
C10_DropInsideWindow ==
    /\ [](call.op = "onDisconnect" => call.rc = 1)
    /\ []((call.event = "drop" /\ WithinBackoff(now, call.last0, call.delay0))
              => ConnectRequests(ops) = 0)
    /\ [][(window.active /\ call'.fired > 0)
              => ~WithinBackoff(now', window.last, window.delay)]_vars

\* After a session dropped inside the backoff window, a later reconnect()
\* was polled inside the window and issued nothing.
C10_Witness ==
    /\ window.active
    /\ call.op = "reconnect"
    /\ ~call.conn
    /\ call.rc = 1
    /\ WithinBackoff(now, window.last, window.delay)
    /\ ConnectRequests(ops) = 0

\* C11: in the scenario (server "10.0.0.5":1883, LWT topic "dev/status",
\* connect() called, connect failures at 0, 1000 and 3000 ms, success at
\* 7000 ms) the delay after the first, second and third failure is 1000,
\* 2000 and 4000 ms, and the success resets it to 1000 ms and publishes "on",
\* retained, to "dev/status".
C11_Scenario ==
    /\ (call.event = "connfail" /\ scenario = 1) => reconnectDelay = 1000
    /\ (call.event = "connfail" /\ scenario = 2) => reconnectDelay = 2000
    /\ (call.event = "connfail" /\ scenario = 3) => reconnectDelay = 4000
    /\ (call.event = "connack" /\ scenario = 4)
           => /\ reconnectDelay = 1000
              /\ ops = << [op |-> "publish", topic |-> ScenarioTopic, qos |-> 0,
                           retain |-> TRUE, payload |-> "on"] >>

\* The scenario has been played to its end: the attempt that the third
\* failure's onDisconnect issued at 3000 ms, with "10.0.0.5":1883 configured,
\* succeeded at 7000 ms.
C11_Witness ==
    /\ scenario = 4
    /\ call.event = "connack"
    /\ now = 7000 \div MsPerTick
    /\ call.last0 = 3000 \div MsPerTick
    /\ call.delay0 = 4000
    /\ CStr(mqtt_server, <<>>) = ScenarioServer
    /\ mqtt_port = 1883
    /\ reconnectDelay = 1000
    /\ Publishes(ops) = 1

\* C12: reconnectDelay returns to the baseline only in onConnect: every step
\* in which it decreases is an onConnect, and onDisconnect never lowers it;
\* an onDisconnect whose reconnect() fires doubles (up to the cap) the delay
\* the outage had reached.
C12_DelayDecreasesOnlyInOnConnect ==
    [][/\ reconnectDelay' < reconnectDelay => call'.op = "onConnect"
       /\ call'.op = "onDisconnect" =>
              /\ reconnectDelay' >= reconnectDelay
              /\ call'.fired > 0 => reconnectDelay' = Min(2 * reconnectDelay, 32000)]_vars

\* A failed attempt found the delay at 4000 ms or more, and its onDisconnect
\* doubled it.
C12_Witness ==
    /\ call.op = "onDisconnect"
    /\ call.event = "connfail"
    /\ call.delay0 >= 4000
    /\ call.fired = 1
    /\ reconnectDelay = 2 * call.delay0

\* C16: a reconnect() called while the transport is disconnected and
\* reconnectDelay or more has elapsed since lastReconnectAttempt issues exactly
\* one connect request, sets lastReconnectAttempt to the current time and
\* sets reconnectDelay to min(2 * previous reconnectDelay, 32000); at 32000
\* the delay stays 32000.
C16_ReconnectFires ==
    (call.op = "reconnect" /\ ~call.conn
        /\ ~WithinBackoff(now, call.last0, call.delay0))
        => /\ ConnectRequests(ops) = 1
           /\ lastReconnectAttempt = now
           /\ reconnectDelay = Min(2 * call.delay0, 32000)
           /\ call.delay0 = 32000 => reconnectDelay = 32000

\* reconnect() fired with the delay at 16000 ms, later than the previous
\* attempt: one request, the time stamped, the delay at the cap.
C16_Witness ==
    /\ call.op = "reconnect"
    /\ ~call.conn
    /\ call.delay0 = 16000
    /\ call.last0 < now
    /\ ConnectRequests(ops) = 1
    /\ lastReconnectAttempt = now
    /\ reconnectDelay = 32000

\* C18: in every reachable state where the transport is connected (its
\* onConnect has completed), reconnectDelay is 1000 ms; the reconnect() of an
\* onDisconnect that follows a session drop always finds the baseline delay.
C18_ConnectedAtBaseline ==
    /\ mqttClient = "connected" => reconnectDelay = 1000
    /\ call.event = "drop" => call.delay0 = 1000

\* A session that was established after retries of reconnect() has dropped,
\* and its onDisconnect found the delay at 1000 ms.
C18_Witness ==
    /\ call.event = "drop"
    /\ call.last0 > 0
    /\ call.delay0 = 1000
    /\ call.rc = 1

\* C19: a direct connect() leaves lastReconnectAttempt and reconnectDelay
\* unchanged, also when it issues a connect request; lastReconnectAttempt
\* changes only in a step whose reconnect() passed its gate.
C19_ConnectKeepsBackoffState ==
    /\ []((call.op = "connect" /\ call.event = "call")
              => /\ lastReconnectAttempt = call.last0
                 /\ reconnectDelay = call.delay0)
    /\ [][lastReconnectAttempt' # lastReconnectAttempt => call'.fired > 0]_vars

\* A direct connect() issued a request some time after the last attempt of
\* reconnect(), and the backoff state is still the one that attempt left.
C19_Witness ==
    /\ call.op = "connect"
    /\ ConnectRequests(ops) = 1
    /\ call.last0 > 0
    /\ now > call.last0
    /\ lastReconnectAttempt = call.last0
    /\ reconnectDelay = call.delay0

\* C13: setServer() stores the address and the port without any transport
\* call, and for every server string given to it the setServer call of the
\* next connect() hands exactly that string and that port to the transport.
\* (The string given is the one whose copy mqtt_server holds: the copies of
\* the strings of ConfigServers differ.)
C13_ServerHandedAsGiven ==
    /\ call.op = "setServer" => ops = <<>>
    /\ \A i \in 1..Len(ops) :
           ops[i].op = "setServer" =>
               \A server \in ConfigServers :
                   mqtt_server = strncpy(server, ServerBufSize)
                       => /\ ops[i].host = server
                          /\ ops[i].port = mqtt_port

\* C14: when autoConnect() has failed at startup, no transport call
\* (configuration, connect or publish) is ever made, the iterations of the
\* main loop included.
C14_NoMqttWithoutWifi ==
    (sketch.pc # "boot" /\ ~sketch.wifi) => ops = <<>>

\* C15: when onConnect runs with the transport connected, it makes exactly
\* one transport call: a publish of "on" to the LWT topic most recently set
\* by setLwt(), with QoS 0 and retain set; it issues no connect request.
C15_OnConnectPublishesOnline ==
    call.op = "onConnect"
        => /\ Len(ops) = 1
           /\ Publishes(ops) = 1
           /\ ConnectRequests(ops) = 0
           /\ ops[1].payload = "on" /\ ops[1].qos = 0 /\ ops[1].retain
           /\ \A topic \in ConfigTopics :
                  lwt_topic = strncpy(topic, TopicBufSize) => ops[1].topic = topic

\* onConnect ran after the LWT topic had been set to "my/topic/lwt" and
\* published "on" to it.
C15_Witness ==
    /\ call.op = "onConnect"
    /\ lwt_topic = strncpy(DocTopic, TopicBufSize)
    /\ ops = << [op |-> "publish", topic |-> DocTopic, qos |-> 0, retain |-> TRUE,
                 payload |-> "on"] >>

\* C17: every connect request is preceded, in the same handler and in this
\* order, by setServer with the stored address and port, setKeepAlive(60) and
\* setWill on the stored LWT topic with QoS 0, retain set and payload "off".
\* (The stored address is mqtt_server as the transport reads it.)
C17_ConfiguredBeforeConnect ==
    \A i \in 1..Len(ops) :
        ops[i].op = "connect" =>
            /\ i >= 4
            /\ \E overrun \in Overruns :
                   /\ ops[i - 3] = [op |-> "setServer",
                                    host |-> CStr(mqtt_server, overrun),
                                    port |-> mqtt_port]
                   /\ ops[i - 1] = [op |-> "setWill",
                                    topic |-> CStr(lwt_topic, overrun),
                                    qos |-> 0, retain |-> TRUE, payload |-> "off"]
            /\ ops[i - 2] = [op |-> "setKeepAlive", seconds |-> 60]
            /\ Terminated(mqtt_server) => ops[i - 3].host = CStr(mqtt_server, <<>>)

\* After the configuration was changed to port 8883 and "my/topic/lwt", a
\* failed attempt's onDisconnect issued a request with that configuration.
C17_Witness ==
    /\ call.op = "onDisconnect"
    /\ mqtt_port = 8883
    /\ mqtt_server = strncpy(SketchServer, ServerBufSize)
    /\ Len(ops) = 4
    /\ ops[1] = [op |-> "setServer", host |-> SketchServer, port |-> 8883]
    /\ ops[3].topic = DocTopic
    /\ ops[4].op = "connect"

\* The time (in ticks) that has passed at clock value t since clock value
\* last, the clock having wrapped around at most once in between.
TrueElapsed(t, last) ==
    IF t >= last THEN t - last ELSE (ClockModulus - last) + t

\* C20: the gate stays correct when the clock wraps around: a reconnect()
\* polled on a disconnected transport fires exactly when the time that has
\* really passed since the last attempt is reconnectDelay or more: never
\* earlier, and never held back by the wrap.
C20_GateAcrossWrap ==
    (call.op = "reconnect" /\ ~call.conn)
        => (call.fired = 1 <=> TrueElapsed(now, call.last0) >= TicksCeil(call.delay0))

\* The last attempt was made before the wrap with a delay of 2000 ms or
\* more; reconnect() was polled after the wrap, right when the delay had
\* passed, and fired.
C20_Witness ==
    /\ call.op = "reconnect"
    /\ ~call.conn
    /\ call.last0 >= WrapStart
    /\ now < WrapStart
    /\ call.delay0 >= 2000
    /\ TrueElapsed(now, call.last0) = TicksCeil(call.delay0)
    /\ call.fired = 1
    /\ lastReconnectAttempt = now

====
